---------------------------- MODULE Spec2Model ----------------------------
(***************************************************************************)
(* A model of the helpers of mvpa/misc/support.py and mvpa/misc/stats.py.  *)
(*                                                                         *)
(* Every helper is a synchronous call, so each one gets one variable: the  *)
(* frame of the call (its arguments, its locals under the names of the     *)
(* source, its position pc and what it returned or raised) or, for the     *)
(* classes, the object's fields.  Each helper has a specification of its   *)
(* own (SpecVersion, SpecCmp, ...) in which the other frames stay idle.    *)
(*                                                                         *)
(* A Python string is a sequence of one-character strings, a Python list   *)
(* or tuple a sequence, None the empty tuple and Some(x) the tuple <<x>>.   *)
(***************************************************************************)
EXTENDS Integers, Sequences, FiniteSets, TLC

VARIABLES
    vt,     \* the frame of version_to_tuple(v)
    sv,     \* two SmartVersion objects and the result of self.__cmp__(other)
    bp,     \* the frame of get_break_points(items, contiguous)
    m2s,    \* the frame of mask2slice(mask)
    bc,     \* the frame of transform_with_boxcar(data, startpoints, ...)
    ev,     \* an Event and the result of its as_descrete_time(dt, ...)
    dsm,    \* a DSMatrix object and what its accessors returned
    lf,     \* the frame of get_limit_filter(limit, collection)
    chi,    \* the frame of chisquare(obs, exp)
    v2i,    \* the frame of value2idx(val, x, solv)
    rfe,    \* the frame of rfe_history_to_maps(history)
    mo,     \* a MapOverlap object and what its calls returned
    ord     \* three SmartVersion objects and the results of comparing them

vars == <<vt, sv, bp, m2s, bc, ev, dsm, lf, chi, v2i, rfe, mo, ord>>

Idle == [pc |-> "idle"]

----------------------------------------------------------------------------
(* Generic helpers on sequences and integers.                              *)

Range(s) == {s[i] : i \in 1..Len(s)}

Max(a, b) == IF a >= b THEN a ELSE b

Abs(x) == IF x < 0 THEN -x ELSE x

\* All sequences over S of length 0..n.
SeqsUpTo(S, n) == UNION {[1..k -> S] : k \in 0..n}

\* The length of the longest prefix of s, from position i on, whose elements
\* are all in the set C.
RECURSIVE PrefixLen(_, _, _)
PrefixLen(s, C, i) ==
    IF i <= Len(s) /\ s[i] \in C THEN PrefixLen(s, C, i + 1) ELSE i - 1

Drop(s, n) == SubSeq(s, n + 1, Len(s))

Take(s, n) == SubSeq(s, 1, n)

----------------------------------------------------------------------------
(* Characters.  The alphabet holds the digits, the letters the pre-release *)
(* markers are spelled with (two of them also in upper case), the three    *)
(* signs the version pattern knows, the dot, and "_" for a character no    *)
(* class of the pattern holds.                                             *)

Digits == {"0", "1", "2"}

LowerLetters == {"a", "b", "c", "d", "e", "h", "l", "n", "p", "r", "s", "t", "v"}

UpperLetters == {"C", "R"}

Letters == LowerLetters \cup UpperLetters

Signs == {"~", "+", "-"}

Alphabet == Digits \cup Letters \cup Signs \cup {".", "_"}

IsDigit(c) == c \in Digits

IsLetter(c) == c \in Letters

IsSign(c) == c \in Signs

\* int() of one decimal digit.
DigitVal(c) == CASE c = "0" -> 0 [] c = "1" -> 1 [] c = "2" -> 2

\* ord(): Python 2 compares str values by their bytes.
Ord(c) ==
    CASE c = "+" -> 43 [] c = "-" -> 45 [] c = "." -> 46
      [] c = "0" -> 48 [] c = "1" -> 49 [] c = "2" -> 50
      [] c = "C" -> 67 [] c = "R" -> 82 [] c = "_" -> 95
      [] c = "a" -> 97 [] c = "b" -> 98 [] c = "c" -> 99 [] c = "d" -> 100
      [] c = "e" -> 101 [] c = "h" -> 104 [] c = "l" -> 108 [] c = "n" -> 110
      [] c = "p" -> 112 [] c = "r" -> 114 [] c = "s" -> 115 [] c = "t" -> 116
      [] c = "v" -> 118 [] c = "~" -> 126

\* str.lower() of one character (what re.I folds).
Lower(c) == CASE c = "C" -> "c" [] c = "R" -> "r" [] OTHER -> c

\* cmp() of two integers.
CmpInt(x, y) == IF x < y THEN -1 ELSE IF x > y THEN 1 ELSE 0

\* cmp() of two str values: the first differing byte decides, then the length.
RECURSIVE CmpStr(_, _)
CmpStr(x, y) ==
    IF x = <<>> /\ y = <<>> THEN 0
    ELSE IF x = <<>> THEN -1
    ELSE IF y = <<>> THEN 1
    ELSE IF Ord(Head(x)) # Ord(Head(y)) THEN CmpInt(Ord(Head(x)), Ord(Head(y)))
    ELSE CmpStr(Tail(x), Tail(y))

\* The decimal value of a string of digits.
RECURSIVE DecimalValue(_)
DecimalValue(s) ==
    IF s = <<>> THEN 0
    ELSE 10 * DecimalValue(Take(s, Len(s) - 1)) + DigitVal(s[Len(s)])

----------------------------------------------------------------------------
(* version_to_tuple                                                        *)

\* The tokens of a version tuple: Python ints and Python strs.
IntTok(n) == [kind |-> "int", n |-> n, s |-> <<>>]

StrTok(s) == [kind |-> "str", n |-> 0, s |-> s]

\* str.split('.'): the segments between the dots, empty ones kept.
RECURSIVE split(_)
split(v) ==
    LET n == PrefixLen(v, Alphabet \ {"."}, 1)
    IN  IF n = Len(v) THEN <<v>>
        ELSE <<Take(v, n)>> \o split(Drop(v, n + 1))

\* Whether int(x) succeeds on the str x: an optional sign, then one or more
\* digits (the alphabet has no white space, which int() would strip).
IntOk(x) ==
    LET body == IF x # <<>> /\ Head(x) \in {"+", "-"} THEN Tail(x) ELSE x
    IN  body # <<>> /\ \A i \in 1..Len(body) : IsDigit(body[i])

\* int(x) where IntOk(x).
IntOf(x) ==
    IF Head(x) = "-" THEN -DecimalValue(Tail(x))
    ELSE IF Head(x) = "+" THEN DecimalValue(Tail(x))
    ELSE DecimalValue(x)

\* regex.search(suffix).groupdict() for the pattern
\*   (?P<numeric>[0-9]*)(?P<alpha>[~+-]*[A-Za-z]*)(?P<suffix>.*)
\* Every group may be empty, so the pattern matches every string at position 0;
\* the groups are greedy and never have to give anything back.
regex_search(suffix) ==
    LET nn   == PrefixLen(suffix, Digits, 1)
        r1   == Drop(suffix, nn)
        ns   == PrefixLen(r1, Signs, 1)
        r2   == Drop(r1, ns)
        nl   == PrefixLen(r2, Letters, 1)
    IN  [matched |-> TRUE,
         numeric |-> Take(suffix, nn),
         alpha   |-> Take(r1, ns) \o Take(r2, nl),
         suffix  |-> Drop(r2, nl)]

\* What one pass of the while loop's body appends to vres.
body_tokens(resd) ==
    (IF resd.numeric # <<>> THEN <<IntTok(DecimalValue(resd.numeric))>> ELSE <<>>)
    \o (IF resd.alpha # <<>> THEN <<StrTok(resd.alpha)>> ELSE <<>>)

\* The segments of one str, as the for loop and the while loop turn them into
\* tokens, for a segment whose while loop ends (see vt_body).
RECURSIVE segment_tokens(_)
segment_tokens(suffix) ==
    IF suffix = <<>> THEN <<>>
    ELSE LET resd == regex_search(suffix)
         IN  body_tokens(resd) \o segment_tokens(resd.suffix)

RECURSIVE items_tokens(_)
items_tokens(v) ==
    IF v = <<>> THEN <<>>
    ELSE (IF IntOk(Head(v)) THEN <<IntTok(IntOf(Head(v)))>>
          ELSE segment_tokens(Head(v)))
         \o items_tokens(Tail(v))

\* version_to_tuple(v) of a str v on which it returns.
version_to_tuple(v) == items_tokens(split(v))

\* Whether the while loop ends on every segment of v: each pass consumes at
\* least one character unless the rest starts with a character that is no
\* digit, no letter and none of ~ + -.
Classifiable(v) ==
    \A i \in 1..Len(v) : IsDigit(v[i]) \/ IsLetter(v[i]) \/ IsSign(v[i]) \/ v[i] = "."

\* ---- the call, step by step ----

MaxSegments == 2

\* The segments the explored version strings are joined from.
ParseSegments ==
    { <<>>, <<"0">>, <<"1">>, <<"1","0">>, <<"-","1">>, <<"+","2">>,
      <<"d","e","v">>, <<"-","d","e","v">>, <<"r","c">>, <<"R","C","1">>,
      <<"~">>, <<"a">>, <<"1","a">>, <<"0","r","c","2">>, <<"1","-","d","e","v">>,
      <<"_">>, <<"1","_">>, <<"a","_","1">>, <<"1","~","p","r","e","2","b">> }

RECURSIVE join(_)
join(segs) ==
    IF segs = <<>> THEN <<>>
    ELSE IF Len(segs) = 1 THEN segs[1]
    ELSE segs[1] \o <<".">> \o join(Tail(segs))

StrArg(s) == [kind |-> "str", s |-> s, items |-> <<>>]

TupleArg(items) == [kind |-> "tuple", s |-> <<>>, items |-> items]

OtherArg == [kind |-> "other", s |-> <<>>, items |-> <<>>]

VersionArgs ==
    {StrArg(join(segs)) : segs \in SeqsUpTo(ParseSegments, MaxSegments) \ {<<>>}}
    \cup {TupleArg(segs) : segs \in SeqsUpTo({<<"1">>, <<"0","a">>, <<"_">>}, MaxSegments)}
    \cup {OtherArg}

vt_call(arg) ==
    [pc |-> "enter", arg |-> arg, v |-> <<>>, suffix |-> <<>>, vres |-> <<>>,
     result |-> <<>>]

\* lines 219-228: a str is split at the dots, a tuple or list is taken as it
\* is, anything else raises ValueError.
vt_enter ==
    /\ vt.pc = "enter"
    /\ vt' = IF vt.arg.kind = "str"
               THEN [vt EXCEPT !.pc = "for", !.v = split(vt.arg.s)]
             ELSE IF vt.arg.kind = "tuple"
               THEN [vt EXCEPT !.pc = "for", !.v = vt.arg.items]
             ELSE [vt EXCEPT !.pc = "ValueError"]
    /\ UNCHANGED <<sv, bp, m2s, bc, ev, dsm, lf, chi, v2i, rfe, mo, ord>>

\* lines 232-237 and 251-253: the next x of v; int(x) is appended, or x goes to
\* the while loop; after the last x the tuple is returned.
vt_for ==
    /\ vt.pc = "for"
    /\ vt' = IF vt.v = <<>>
               THEN [vt EXCEPT !.pc = "done", !.result = vt.vres]
             ELSE IF IntOk(Head(vt.v))
               THEN [vt EXCEPT !.v = Tail(vt.v),
                               !.vres = vt.vres \o <<IntTok(IntOf(Head(vt.v)))>>]
             ELSE [vt EXCEPT !.v = Tail(vt.v), !.suffix = Head(vt.v),
                             !.pc = "while"]
    /\ UNCHANGED <<sv, bp, m2s, bc, ev, dsm, lf, chi, v2i, rfe, mo, ord>>

\* line 238: while suffix != ''.
vt_while ==
    /\ vt.pc = "while"
    /\ vt' = IF vt.suffix # <<>> THEN [vt EXCEPT !.pc = "body"]
             ELSE [vt EXCEPT !.pc = "for"]
    /\ UNCHANGED <<sv, bp, m2s, bc, ev, dsm, lf, chi, v2i, rfe, mo, ord>>

\* lines 239-250: one pass of the body.  The pattern matches every string, so
\* the else branch (which would itself fail, on `resd += [suffix]`) is never
\* taken; a suffix that starts with an unclassifiable character comes back
\* whole, with nothing appended.
vt_body ==
    /\ vt.pc = "body"
    /\ LET res == regex_search(vt.suffix)
       IN  vt' = IF res.matched
                   THEN [vt EXCEPT !.vres = vt.vres \o body_tokens(res),
                                   !.suffix = res.suffix,
                                   !.pc = "while"]
                 ELSE [vt EXCEPT !.pc = "TypeError"]
    /\ UNCHANGED <<sv, bp, m2s, bc, ev, dsm, lf, chi, v2i, rfe, mo, ord>>

InitVersion ==
    /\ vt \in {vt_call(arg) : arg \in VersionArgs}
    /\ sv = Idle /\ bp = Idle /\ m2s = Idle /\ bc = Idle
    /\ ev = Idle /\ dsm = Idle /\ lf = Idle /\ chi = Idle
    /\ v2i = Idle /\ rfe = Idle /\ mo = Idle /\ ord = Idle

NextVersion == vt_enter \/ vt_for \/ vt_while \/ vt_body

SpecVersion == InitVersion /\ [][NextVersion]_vars

\* The interpreter runs the call to its end: no step of it waits on anything.
FairSpecVersion == SpecVersion /\ WF_vars(NextVersion)

vt_ended == vt.pc \in {"done", "ValueError", "TypeError"}

\* The step-by-step call and version_to_tuple agree where the call returns.
StepsAgreeWithOperator ==
    (vt.pc = "done" /\ vt.arg.kind = "str") => vt.result = version_to_tuple(vt.arg.s)

\* C10: version_to_tuple terminates on every input string: every call ends,
\* by returning the tuple or by raising.
C10_VersionToTupleTerminates == <>vt_ended

\* C10, the part that holds: on a string made only of digits, letters, the
\* signs ~ + - and dots, every pass of the loop body shortens the suffix.
C10_BodyConsumesWhenClassifiable ==
    (vt.pc = "body" /\ vt.arg.kind = "str" /\ Classifiable(vt.arg.s))
        => Len(regex_search(vt.suffix).suffix) < Len(vt.suffix)

----------------------------------------------------------------------------
(* SmartVersion                                                            *)

NoneTok == [kind |-> "None", n |-> 0, s |-> <<>>]

IsPrefix(p, s) == Len(p) <= Len(s) /\ Take(s, Len(p)) = p

lower(s) == [i \in 1..Len(s) |-> Lower(s[i])]

\* The alternatives of regex_prerelease after their optional "-" (line 287).
prerelease_words ==
    << <<"d","e","v">>, <<"r","c">>, <<"s","v","n">>, <<"p","r","e">>,
       <<"b","e","t","a">>, <<"a","l","p","h","a">> >>

\* regex_prerelease.match(y) for '~|-?dev|-?rc|-?svn|-?pre|-?beta|-?alpha'
\* compiled with re.I: the alternatives are tried at the start of y, each
\* with and without its "-", letters compared without case.
regex_prerelease_match(y) ==
    \/ IsPrefix(<<"~">>, y)
    \/ \E k \in 1..Len(prerelease_words) :
          \/ (y # <<>> /\ y[1] = "-" /\ IsPrefix(prerelease_words[k], lower(Tail(y))))
          \/ IsPrefix(prerelease_words[k], lower(y))

Return(val) == [kind |-> "return", val |-> val]

Raise(exc) == [kind |-> "raise", val |-> 0, exc |-> exc]

FallThrough == [kind |-> "next", val |-> 0]

\* pair_cmp with the pre-release test dropped: an extra str always wins.
pair_cmp_no_prerelease(x, y, mult) ==
    IF x.kind = "None"
      THEN IF y.kind = "int" THEN Return(-mult)
           ELSE IF y.kind = "str" THEN Return(-mult)
           ELSE Raise("RuntimeError")
    ELSE IF x.kind = "int"
      THEN IF y.kind # "int" THEN Return(mult)
           ELSE Return(mult * CmpInt(x.n, y.n))
    ELSE IF y.kind = "str" THEN Return(mult * CmpStr(x.s, y.s))
    ELSE FallThrough

\* lines 298-317: one pass of `for x,y,mult in ((si, oi, 1), (oi, si, -1))`.
pair_cmp(x, y, mult) ==
    IF x.kind = "None"
      THEN IF y.kind = "int" THEN Return(-mult)
           ELSE IF y.kind = "str"
             THEN IF regex_prerelease_match(y.s) THEN Return(mult)
                  ELSE Return(-mult)
           ELSE Raise("RuntimeError")
    ELSE IF x.kind = "int"
      THEN IF y.kind # "int" THEN Return(mult)
           ELSE Return(mult * CmpInt(x.n, y.n))
    ELSE IF y.kind = "str" THEN Return(mult * CmpStr(x.s, y.s))
    ELSE FallThrough

\* lines 285-318: the walk over the positions of both tuples, from position i.
RECURSIVE cmp_from(_, _, _)
cmp_from(s, o, i) ==
    IF i > Max(Len(s), Len(o)) THEN Return(0)
    ELSE LET si == IF i <= Len(s) THEN s[i] ELSE NoneTok
             oi == IF i <= Len(o) THEN o[i] ELSE NoneTok
             first  == pair_cmp(si, oi, 1)
             second == pair_cmp(oi, si, -1)
         IN  IF si = oi THEN cmp_from(s, o, i + 1)
             ELSE IF first.kind # "next" THEN first
             ELSE IF second.kind # "next" THEN second
             ELSE cmp_from(s, o, i + 1)

\* SmartVersion(vstring): parse() keeps the string and its tuple.
SmartVersion(vstring) == [vstring |-> vstring, version |-> version_to_tuple(vstring)]

\* SmartVersion.__cmp__(self, other), other given as a SmartVersion, as a str
\* (lines 274-275) or as something else (lines 280-282).
SmartVersion_cmp(self, other) ==
    IF other.kind = "other" THEN Raise("ValueError")
    ELSE cmp_from(self.version, SmartVersion(other.vstring).version, 1)

\* The segments the compared versions are joined from.
CmpSegments ==
    { <<"0">>, <<"1">>, <<"0","-","d","e","v">>, <<"R","C","1">>,
      <<"a">>, <<"~">>, <<"-","-","d","e","v">> }

CmpStrings ==
    {join(segs) : segs \in SeqsUpTo(CmpSegments, MaxSegments)}
    \cup {<<"1", ".", "0", ".", "1">>}

OtherArgs ==
    {[kind |-> "SmartVersion", vstring |-> v] : v \in CmpStrings}
    \cup {[kind |-> "str", vstring |-> <<"1">> \o v] : v \in {<<>>, <<"r","c">>, <<".","0">>}}
    \cup {[kind |-> "other", vstring |-> <<>>]}

sv_cmp ==
    /\ sv.pc = "cmp"
    /\ sv' = [sv EXCEPT !.pc = "done",
                        !.result = SmartVersion_cmp(sv.self, sv.other)]
    /\ UNCHANGED <<vt, bp, m2s, bc, ev, dsm, lf, chi, v2i, rfe, mo, ord>>

InitCmp ==
    /\ sv \in {[pc |-> "cmp", self |-> SmartVersion(v), other |-> o,
                result |-> FallThrough] : v \in CmpStrings, o \in OtherArgs}
    /\ vt = Idle /\ bp = Idle /\ m2s = Idle /\ bc = Idle
    /\ ev = Idle /\ dsm = Idle /\ lf = Idle /\ chi = Idle
    /\ v2i = Idle /\ rfe = Idle /\ mo = Idle /\ ord = Idle

NextCmp == sv_cmp

SpecCmp == InitCmp /\ [][NextCmp]_vars

\* The token tuple of the other side of a finished comparison.
sv_s == sv.self.version

sv_o == version_to_tuple(sv.other.vstring)

\* The claim's pre-release test, from its words: the token, read without case,
\* starts with "~", or with one of the six markers, or with "-" and a marker.
StartsWithMarker(tok) ==
    LET t == lower(tok.s)
        Markers == {<<"d","e","v">>, <<"r","c">>, <<"s","v","n">>, <<"p","r","e">>,
                    <<"b","e","t","a">>, <<"a","l","p","h","a">>}
    IN  /\ tok.kind = "str"
        /\ \/ t[1] = "~"
           \/ \E m \in Markers : IsPrefix(m, t) \/ IsPrefix(<<"-">> \o m, t)

\* What the claim says cmp(longer, shorter) is, given the first extra token.
ExtraVerdict(tok) == IF StartsWithMarker(tok) THEN -1 ELSE 1

\* C1: when the two token tuples agree on every position of the shorter one,
\* the version with extra tokens compares greater, unless its first extra
\* token starts with a pre-release marker, and then it compares smaller;
\* identical tuples compare equal.
C1_PrefixComparison ==
    (sv.pc = "done" /\ sv.other.kind # "other") =>
        LET s == sv_s
            o == sv_o
        IN  /\ (s = o) => sv.result = Return(0)
            /\ (Len(s) < Len(o) /\ Take(o, Len(s)) = s)
                  => sv.result = Return(-ExtraVerdict(o[Len(s) + 1]))
            /\ (Len(o) < Len(s) /\ Take(s, Len(o)) = o)
                  => sv.result = Return(ExtraVerdict(s[Len(o) + 1]))

\* C1's case: '1.0-dev' has been compared with '1.0' and found smaller.
C1_Witness ==
    /\ sv.pc = "done"
    /\ sv.self.vstring = <<"1", ".", "0", "-", "d", "e", "v">>
    /\ sv.other.vstring = <<"1", ".", "0">>
    /\ sv.result = Return(-1)

\* '1.0' has been compared with '1.0.1' and found smaller.
C1_WitnessLonger ==
    /\ sv.pc = "done"
    /\ sv.self.vstring = <<"1", ".", "0">>
    /\ sv.other.vstring = <<"1", ".", "0", ".", "1">>
    /\ sv.result = Return(-1)

----------------------------------------------------------------------------
(* get_break_points                                                        *)

MaxItems == 5

ItemValues == {0, 1, 2}

\* None, and a value that is not None.
None == <<>>

Some(x) == <<x>>

bp_call(items, contiguous) ==
    [pc |-> "loop", items |-> items, contiguous |-> contiguous,
     index |-> 0, prev |-> None, known |-> <<>>, result |-> <<>>]

\* The loop body with the test of prev left out: every known item breaks.
bp_body_no_prev(f) ==
    LET item == f.items[f.index + 1]
    IN  IF item \in Range(f.known)
          THEN IF f.index > 0
                 THEN IF f.contiguous THEN [f EXCEPT !.pc = "ValueError"]
                      ELSE [f EXCEPT !.result = Append(f.result, f.index),
                                     !.prev = Some(item), !.index = f.index + 1]
               ELSE [f EXCEPT !.prev = Some(item), !.index = f.index + 1]
        ELSE [f EXCEPT !.known = Append(f.known, item),
                       !.result = Append(f.result, f.index),
                       !.prev = Some(item), !.index = f.index + 1]

\* lines 342-354: one pass of the loop body on the frame f (index counts from
\* 0 as in the source; sequences here count from 1).
bp_body(f) ==
    LET item == f.items[f.index + 1]
    IN  IF item \in Range(f.known)
          THEN IF f.index > 0 /\ f.prev # Some(item)
                 THEN IF f.contiguous THEN [f EXCEPT !.pc = "ValueError"]
                      ELSE [f EXCEPT !.result = Append(f.result, f.index),
                                     !.prev = Some(item), !.index = f.index + 1]
               ELSE [f EXCEPT !.prev = Some(item), !.index = f.index + 1]
        ELSE [f EXCEPT !.known = Append(f.known, item),
                       !.result = Append(f.result, f.index),
                       !.prev = Some(item), !.index = f.index + 1]

\* line 341: for index in xrange(len(items)).
bp_iter ==
    /\ bp.pc = "loop"
    /\ bp.index < Len(bp.items)
    /\ bp' = bp_body(bp)
    /\ UNCHANGED <<vt, sv, m2s, bc, ev, dsm, lf, chi, v2i, rfe, mo, ord>>

\* line 355: return result.
bp_return ==
    /\ bp.pc = "loop"
    /\ bp.index = Len(bp.items)
    /\ bp' = [bp EXCEPT !.pc = "returned"]
    /\ UNCHANGED <<vt, sv, m2s, bc, ev, dsm, lf, chi, v2i, rfe, mo, ord>>

InitBreakPoints ==
    /\ bp \in {bp_call(items, c) : items \in SeqsUpTo(ItemValues, MaxItems),
                                   c \in BOOLEAN}
    /\ vt = Idle /\ sv = Idle /\ m2s = Idle /\ bc = Idle
    /\ ev = Idle /\ dsm = Idle /\ lf = Idle /\ chi = Idle
    /\ v2i = Idle /\ rfe = Idle /\ mo = Idle /\ ord = Idle

NextBreakPoints == bp_iter \/ bp_return

SpecBreakPoints == InitBreakPoints /\ [][NextBreakPoints]_vars

\* The first index (from 0) of every run of equal items.
RunStarts(items) ==
    {i \in 0..(Len(items) - 1) : i = 0 \/ items[i + 1] # items[i]}

\* Some item value occurs in two separate runs.
HasSplitRun(items) ==
    \E i, j \in RunStarts(items) : i < j /\ items[i + 1] = items[j + 1]

StrictlyIncreasing(s) == \A i \in 1..(Len(s) - 1) : s[i] < s[i + 1]

\* C2: whenever get_break_points returns, the result lists, in increasing
\* order, exactly the first index of every run of equal items; with
\* contiguous=True it raises ValueError exactly when some item value occurs in
\* two separate runs; with contiguous=False it never raises.
C2_BreakPoints ==
    /\ bp.pc = "returned" =>
          /\ StrictlyIncreasing(bp.result)
          /\ Range(bp.result) = RunStarts(bp.items)
          /\ bp.contiguous => ~HasSplitRun(bp.items)
    /\ bp.pc = "ValueError" => (bp.contiguous /\ HasSplitRun(bp.items))

\* C2's documented case: [0,0,1,1,2] with contiguous=True returned [0,2,4].
C2_Witness ==
    /\ bp.pc = "returned"
    /\ bp.contiguous
    /\ bp.items = <<0, 0, 1, 1, 2>>
    /\ bp.result = <<0, 2, 4>>

\* [0,1,0] raised with contiguous=True.
C2_WitnessRaise ==
    /\ bp.pc = "ValueError"
    /\ bp.items = <<0, 1, 0>>

\* [0,1,0] with contiguous=False returned a break point for the reappearing 0.
C2_WitnessReappear ==
    /\ bp.pc = "returned"
    /\ ~bp.contiguous
    /\ bp.items = <<0, 1, 0>>
    /\ bp.result = <<0, 1, 2>>

----------------------------------------------------------------------------
(* mask2slice                                                              *)

MaxMaskLen == 6

\* mask.nonzero()[0]: the indices (from 0) of the true elements, increasing.
RECURSIVE nonzero_from(_, _)
nonzero_from(mask, i) ==
    IF i > Len(mask) THEN <<>>
    ELSE (IF mask[i] THEN <<i - 1>> ELSE <<>>) \o nonzero_from(mask, i + 1)

nonzero(mask) == nonzero_from(mask, 1)

\* np.unique(idx[1:] - idx[:-1]): the distinct gaps between neighbours.
stepsizes(idx) == {idx[k + 1] - idx[k] : k \in 1..(Len(idx) - 1)}

Slice(start, stop, step) ==
    [kind |-> "slice", start |-> start, stop |-> stop, step |-> step, mask |-> <<>>]

SameMask(mask) ==
    [kind |-> "mask", start |-> 0, stop |-> 0, step |-> None, mask |-> mask]

Raised(exc) ==
    [kind |-> exc, start |-> 0, stop |-> 0, step |-> None, mask |-> <<>>]

\* mask2slice with idx_end = idx[-1], the + 1 forgotten.
mask2slice_stop_short(mask) ==
    LET idx == nonzero(mask)
        steps == stepsizes(idx)
    IN  IF Len(mask) = 0 THEN Raised("ValueError")
        ELSE IF Len(idx) = 0 THEN Raised("IndexError")
        ELSE IF Len(idx) > 1 /\ Cardinality(steps) > 1 THEN SameMask(mask)
        ELSE Slice(idx[1], idx[Len(idx)],
                   IF Len(idx) > 1 THEN Some(CHOOSE x \in steps : TRUE) ELSE None)

\* lines 562-583.  An empty mask raises ValueError (line 563); a mask with no
\* true element fails on idx[0] (line 566) with IndexError.
mask2slice(mask) ==
    LET idx == nonzero(mask)
        steps == stepsizes(idx)
    IN  IF Len(mask) = 0 THEN Raised("ValueError")
        ELSE IF Len(idx) = 0 THEN Raised("IndexError")
        ELSE IF Len(idx) > 1 /\ Cardinality(steps) > 1 THEN SameMask(mask)
        ELSE Slice(idx[1], idx[Len(idx)] + 1,
                   IF Len(idx) > 1 THEN Some(CHOOSE x \in steps : TRUE) ELSE None)

m2s_run ==
    /\ m2s.pc = "call"
    /\ m2s' = [m2s EXCEPT !.pc = "done", !.result = mask2slice(m2s.mask)]
    /\ UNCHANGED <<vt, sv, bp, bc, ev, dsm, lf, chi, v2i, rfe, mo, ord>>

InitMask2Slice ==
    /\ m2s \in {[pc |-> "call", mask |-> mask, result |-> Raised("none")] :
                  mask \in SeqsUpTo(BOOLEAN, MaxMaskLen)}
    /\ vt = Idle /\ sv = Idle /\ bp = Idle /\ bc = Idle
    /\ ev = Idle /\ dsm = Idle /\ lf = Idle /\ chi = Idle
    /\ v2i = Idle /\ rfe = Idle /\ mo = Idle /\ ord = Idle

NextMask2Slice == m2s_run

SpecMask2Slice == InitMask2Slice /\ [][NextMask2Slice]_vars

\* The indices (from 0) a sequence of length n yields under the slice sl, as
\* Python's slice(start, stop, step) selects them for 0 <= start and step > 0
\* (step None is 1).
SliceIndices(sl, n) ==
    LET step == IF sl.step = None THEN 1 ELSE sl.step[1]
    IN  {i \in 0..(n - 1) : i >= sl.start /\ i < sl.stop /\ (i - sl.start) % step = 0}

TrueIndices(mask) == {i \in 0..(Len(mask) - 1) : mask[i + 1]}

\* The gap between the two smallest true indices.
FirstGap(mask) ==
    LET T == TrueIndices(mask)
        a == CHOOSE x \in T : \A y \in T : x <= y
        b == CHOOSE x \in T \ {a} : \A y \in T \ {a} : x <= y
    IN  b - a

\* Every true index but the smallest has a true index FirstGap below it and
\* none in between.
EquallySpaced(mask) ==
    LET T == TrueIndices(mask)
    IN  Cardinality(T) > 1 =>
          \A x \in T : \/ \A y \in T : x <= y
                       \/ /\ (x - FirstGap(mask)) \in T
                          /\ \A y \in T : ~(x - FirstGap(mask) < y /\ y < x)

\* C3: on a mask with at least one true element, equally spaced true indices
\* (or a single one) give slice(first, last + 1, spacing), which selects
\* exactly the true indices; unequal gaps give back the mask itself.
C3_Mask2Slice ==
    (m2s.pc = "done" /\ TrueIndices(m2s.mask) # {}) =>
        LET T == TrueIndices(m2s.mask)
            first == CHOOSE x \in T : \A y \in T : x <= y
            last  == CHOOSE x \in T : \A y \in T : x >= y
        IN  IF EquallySpaced(m2s.mask)
              THEN /\ m2s.result.kind = "slice"
                   /\ m2s.result.start = first
                   /\ m2s.result.stop = last + 1
                   /\ Cardinality(T) > 1 => m2s.result.step = Some(FirstGap(m2s.mask))
                   /\ SliceIndices(m2s.result, Len(m2s.mask)) = T
            ELSE m2s.result = SameMask(m2s.mask)

\* C3's documented case: true at {1,3,5} gave slice(1, 6, 2).
C3_Witness ==
    /\ m2s.pc = "done"
    /\ m2s.mask = <<FALSE, TRUE, FALSE, TRUE, FALSE, TRUE>>
    /\ m2s.result = Slice(1, 6, Some(2))

\* True at {0,2,3} gave back the mask.
C3_WitnessIrregular ==
    /\ m2s.pc = "done"
    /\ m2s.mask = <<TRUE, FALSE, TRUE, TRUE>>
    /\ m2s.result = SameMask(m2s.mask)

----------------------------------------------------------------------------
(* transform_with_boxcar                                                   *)

MaxData == 3

MaxStartpoints == 2

RECURSIVE Sum(_)
Sum(s) == IF s = <<>> THEN 0 ELSE Head(s) + Sum(Tail(s))

\* fx(window, axis=0), for the reduction np.sum the explored calls pass.
fx(window) == Sum(window)

\* data[np.array(range(i + offset, i + offset + boxlength))]: the elements at
\* the box's indices (from 0), all of them inside data once the check passed.
box_of(data, i, offset, boxlength) ==
    [k \in 1..boxlength |-> data[i + offset + k]]

\* The check of one box with the upper bound off by one (>= for >).
illegal_box_off_by_one(sp, offset, boxlength, n) ==
    (sp + offset + boxlength - 1 >= n - 1) \/ (sp + offset < 0)

\* lines 68-69: the test that raises for the start point sp, len(data) = n.
illegal_box(sp, offset, boxlength, n) ==
    (sp + offset + boxlength - 1 > n - 1) \/ (sp + offset < 0)

bc_call(data, startpoints, boxlength, offset) ==
    [pc |-> "enter", data |-> data, startpoints |-> startpoints,
     boxlength |-> boxlength, offset |-> offset,
     k |-> 1, fx_calls |-> <<>>, selected |-> <<>>]

\* lines 63-64.
bc_enter ==
    /\ bc.pc = "enter"
    /\ bc' = IF bc.boxlength < 1 THEN [bc EXCEPT !.pc = "ValueError"]
             ELSE [bc EXCEPT !.pc = "check", !.k = 1]
    /\ UNCHANGED <<vt, sv, bp, m2s, ev, dsm, lf, chi, v2i, rfe, mo, ord>>

\* lines 67-72: the check of the next start point; after the last one the
\* selector is built (lines 76-77) and the boxes are reduced.
bc_check ==
    /\ bc.pc = "check"
    /\ bc' = IF bc.k > Len(bc.startpoints) THEN [bc EXCEPT !.pc = "apply", !.k = 1]
             ELSE IF illegal_box(bc.startpoints[bc.k], bc.offset, bc.boxlength,
                                 Len(bc.data))
               THEN [bc EXCEPT !.pc = "ValueError"]
             ELSE [bc EXCEPT !.k = bc.k + 1]
    /\ UNCHANGED <<vt, sv, bp, m2s, ev, dsm, lf, chi, v2i, rfe, mo, ord>>

\* line 80: fx on the next box.
bc_apply ==
    /\ bc.pc = "apply"
    /\ bc.k <= Len(bc.startpoints)
    /\ LET box == box_of(bc.data, bc.startpoints[bc.k], bc.offset, bc.boxlength)
       IN  bc' = [bc EXCEPT !.fx_calls = Append(bc.fx_calls, box),
                            !.selected = Append(bc.selected, fx(box)),
                            !.k = bc.k + 1]
    /\ UNCHANGED <<vt, sv, bp, m2s, ev, dsm, lf, chi, v2i, rfe, mo, ord>>

\* line 82.
bc_return ==
    /\ bc.pc = "apply"
    /\ bc.k > Len(bc.startpoints)
    /\ bc' = [bc EXCEPT !.pc = "returned"]
    /\ UNCHANGED <<vt, sv, bp, m2s, ev, dsm, lf, chi, v2i, rfe, mo, ord>>

InitBoxcar ==
    /\ bc \in {bc_call(data, sps, bl, off) :
                 data \in SeqsUpTo({0, 1}, MaxData),
                 sps \in SeqsUpTo(-1..MaxData, MaxStartpoints),
                 bl \in 0..MaxData, off \in {-1, 0, 1}}
    /\ vt = Idle /\ sv = Idle /\ bp = Idle /\ m2s = Idle
    /\ ev = Idle /\ dsm = Idle /\ lf = Idle /\ chi = Idle
    /\ v2i = Idle /\ rfe = Idle /\ mo = Idle /\ ord = Idle

NextBoxcar == bc_enter \/ bc_check \/ bc_apply \/ bc_return

SpecBoxcar == InitBoxcar /\ [][NextBoxcar]_vars

\* The claim's condition for ValueError.
BoxcarInvalid(f) ==
    \/ f.boxlength < 1
    \/ \E k \in 1..Len(f.startpoints) :
          \/ f.startpoints[k] + f.offset < 0
          \/ f.startpoints[k] + f.offset + f.boxlength > Len(f.data)

\* The boxlength consecutive elements data[sp + offset] .. (indices from 0).
Window(f, k) ==
    SubSeq(f.data, f.startpoints[k] + f.offset + 1,
                   f.startpoints[k] + f.offset + f.boxlength)

\* C4: transform_with_boxcar raises ValueError, before fx is applied to any
\* window, exactly when boxlength < 1 or some box leaves the data; otherwise
\* it returns len(startpoints) rows, row k being fx of the k-th window.
C4_Boxcar ==
    /\ bc.pc = "ValueError" => (BoxcarInvalid(bc) /\ bc.fx_calls = <<>>)
    /\ bc.pc \in {"apply", "returned"} => ~BoxcarInvalid(bc)
    /\ bc.pc = "returned" =>
          /\ Len(bc.selected) = Len(bc.startpoints)
          /\ \A k \in 1..Len(bc.startpoints) :
                /\ bc.fx_calls[k] = Window(bc, k)
                /\ bc.selected[k] = fx(Window(bc, k))

\* C4's case: two boxes of length 2 inside three elements were reduced.
C4_Witness ==
    /\ bc.pc = "returned"
    /\ bc.data = <<0, 1, 1>>
    /\ bc.startpoints = <<0, 1>>
    /\ bc.boxlength = 2 /\ bc.offset = 0
    /\ bc.selected = <<1, 2>>

\* A box that ends one past the data raised before any reduction.
C4_WitnessRaise ==
    /\ bc.pc = "ValueError"
    /\ bc.data = <<0, 1, 1>>
    /\ bc.startpoints = <<0, 2>>
    /\ bc.boxlength = 2 /\ bc.offset = 0
    /\ bc.fx_calls = <<>>

----------------------------------------------------------------------------
(* Event                                                                   *)
(* An Event is a dict: a function from its keys to their values.  Times    *)
(* (onset, duration, dt, the offset) are whole multiples of one time unit, *)
(* so that onset / dt is an exact quotient; the discretized onset and      *)
(* duration count time points.                                             *)

MaxOnset == 4

MaxDuration == 3

MaxDt == 3

\* d[key] = value on a dict.
setitem(d, key, value) ==
    [k \in DOMAIN d \cup {key} |-> IF k = key THEN value ELSE d[k]]

\* np.floor(a / dt) and np.ceil(a / dt) for dt > 0.
floor_div(a, dt) == IF a >= 0 THEN a \div dt ELSE -((-a + dt - 1) \div dt)

ceil_div(a, dt) == -floor_div(-a, dt)

\* The keyword arguments the explored events are built from.
EventKwargs ==
    LET onsets == {("onset" :> t) : t \in -2..MaxOnset} \cup {<<>>}
        durations == {("duration" :> d) : d \in 0..MaxDuration} \cup {<<>>}
        others == {("offset" :> 7), <<>>}
    IN  {a @@ b @@ c : a \in onsets, b \in durations, c \in others}

\* as_descrete_time with `out = self` for `out = copy(self)`.
as_descrete_time_alias(self, dt, storeoffset, offsetattr) ==
    LET onset == self["onset"]
        out1 == setitem(self, "onset", floor_div(onset, dt))
        out2 == IF storeoffset
                  THEN setitem(out1, offsetattr, onset - out1["onset"] * dt)
                ELSE out1
        out3 == IF "duration" \in DOMAIN out2
                  THEN setitem(out2, "duration",
                               ceil_div(onset + out2["duration"], dt) - out2["onset"])
                ELSE out2
    IN  [self |-> out3, out |-> out3]

\* lines 493-511, for dt > 0: the event the call was made on and the event
\* it returns, both as they are when it returns.
as_descrete_time(self, dt, storeoffset, offsetattr) ==
    LET onset == self["onset"]
        out0 == self        \* copy(self): a new dict with the same items
        out1 == setitem(out0, "onset", floor_div(onset, dt))
        out2 == IF storeoffset
                  THEN setitem(out1, offsetattr, onset - out1["onset"] * dt)
                ELSE out1
        out3 == IF "duration" \in DOMAIN out2
                  THEN setitem(out2, "duration",
                               ceil_div(onset + out2["duration"], dt) - out2["onset"])
                ELSE out2
    IN  [self |-> self, out |-> out3]

\* lines 449-462: Event(**kwargs) keeps every keyword and needs 'onset'.
ev_init ==
    /\ ev.pc = "new"
    /\ ev' = IF "onset" \in DOMAIN ev.kwargs
               THEN [ev EXCEPT !.pc = "ready", !.self = ev.kwargs]
             ELSE [ev EXCEPT !.pc = "ValueError"]
    /\ UNCHANGED <<vt, sv, bp, m2s, bc, dsm, lf, chi, v2i, rfe, mo, ord>>

\* line 498 divides by dt: float division by 0.0 raises ZeroDivisionError.
ev_as_descrete_time ==
    /\ ev.pc = "ready"
    /\ \E dt \in 0..MaxDt, storeoffset \in BOOLEAN, offsetattr \in {"offset", "lag"} :
          ev' = IF dt = 0
                  THEN [ev EXCEPT !.pc = "ZeroDivisionError", !.dt = dt]
                ELSE LET r == as_descrete_time(ev.self, dt, storeoffset, offsetattr)
                     IN  [ev EXCEPT !.pc = "done", !.dt = dt,
                                    !.storeoffset = storeoffset,
                                    !.offsetattr = offsetattr,
                                    !.self = r.self, !.out = r.out]
    /\ UNCHANGED <<vt, sv, bp, m2s, bc, dsm, lf, chi, v2i, rfe, mo, ord>>

InitEvent ==
    /\ ev \in {[pc |-> "new", kwargs |-> kw, self |-> <<>>, dt |-> 0,
                storeoffset |-> FALSE, offsetattr |-> "offset", out |-> <<>>] :
                 kw \in EventKwargs}
    /\ vt = Idle /\ sv = Idle /\ bp = Idle /\ m2s = Idle
    /\ bc = Idle /\ dsm = Idle /\ lf = Idle /\ chi = Idle
    /\ v2i = Idle /\ rfe = Idle /\ mo = Idle /\ ord = Idle

NextEvent == ev_init \/ ev_as_descrete_time

SpecEvent == InitEvent /\ [][NextEvent]_vars

\* C5: as_descrete_time(dt) with dt > 0 returns an Event whose onset is
\* floor(onset/dt) and whose duration, when there is one, is
\* ceil((onset+duration)/dt) - floor(onset/dt), so that the discretized
\* interval covers the original one; the event it was called on keeps its
\* items, and with storeoffset the value onset - new_onset*dt, in [0, dt), is
\* stored under offsetattr in the result only.
C5_DiscreteTime ==
    (ev.pc = "done") =>
        LET orig  == ev.kwargs
            onset == orig["onset"]
            n     == ev.out["onset"]
        IN  /\ n * ev.dt <= onset /\ onset < (n + 1) * ev.dt
            /\ ("duration" \in DOMAIN orig) =>
                  LET last == n + ev.out["duration"]
                  IN  /\ "duration" \in DOMAIN ev.out
                      /\ (last - 1) * ev.dt < onset + orig["duration"]
                      /\ onset + orig["duration"] <= last * ev.dt
                      /\ n * ev.dt <= onset
                      /\ last * ev.dt >= onset + orig["duration"]
            /\ ev.self = orig
            /\ ev.storeoffset =>
                  /\ ev.offsetattr \in DOMAIN ev.out
                  /\ ev.out[ev.offsetattr] = onset - n * ev.dt
                  /\ 0 <= ev.out[ev.offsetattr] /\ ev.out[ev.offsetattr] < ev.dt

\* C5's case: onset 3 and duration 2 on a grid of 2 became onset 1 and
\* duration 2 (time points 1..3 cover 3..5), with the offset 1 stored.
C5_Witness ==
    /\ ev.pc = "done"
    /\ ev.kwargs = ("onset" :> 3) @@ ("duration" :> 2)
    /\ ev.dt = 2 /\ ev.storeoffset /\ ev.offsetattr = "offset"
    /\ ev.out = ("onset" :> 1) @@ ("duration" :> 2) @@ ("offset" :> 1)
    /\ ev.self = ev.kwargs

\* An event that already had an 'offset' keeps it when the result gets a new one.
C5_WitnessKeepsOffset ==
    /\ ev.pc = "done"
    /\ ev.storeoffset /\ ev.offsetattr = "offset"
    /\ ev.self["onset"] = -1 /\ ev.dt = 3
    /\ "offset" \in DOMAIN ev.self /\ ev.self["offset"] = 7
    /\ ev.out["offset"] = 2 /\ ev.out["onset"] = -1

----------------------------------------------------------------------------
(* DSMatrix                                                                *)
(* A matrix is a sequence of rows.  The entries explored are integers:    *)
(* the Euclidean metric is given exemplars whose distances are whole, the  *)
(* two correlation metrics exemplars of two distinct features, whose       *)
(* correlation is exactly 1 or -1.                                         *)

MaxExemplars == 3

MaxFeatures == 2

FeatureValues == {0, 1}

Metrics == {"euclidean", "spearman", "pearson", "confusion", "manhattan"}

SumSq(a, b) == Sum([k \in 1..Len(a) |-> (a[k] - b[k]) * (a[k] - b[k])])

IsSquare(n) == \E r \in 0..n : r * r = n

\* np.linalg.norm(a - b), where it is a whole number.
norm_diff(a, b) == CHOOSE r \in 0..SumSq(a, b) : r * r = SumSq(a, b)

\* st.pearsonr(a, b)[0] and st.spearmanr(a, b)[0] of two exemplars of two
\* distinct features each: 1 when both rise or both fall, else -1.
corr2(a, b) == IF (a[2] - a[1]) * (b[2] - b[1]) > 0 THEN 1 ELSE -1

\* np.sum((a == b).astype(np.int32)): the positions at which a and b agree.
n_equal(a, b) == Cardinality({k \in 1..Len(a) : a[k] = b[k]})

\* ds_entry with 'confusion' rounding the share of equal positions up, not
\* down: 0 as soon as one position agrees.
ds_entry_round_up(metric, a, b) ==
    LET num_features == Len(a)
        flag_1d == (num_features = 1)
    IN  CASE metric = "euclidean" -> norm_diff(a, b)
          [] metric = "spearman"  -> 1 - corr2(a, b)
          [] metric = "pearson"   -> 1 - corr2(a, b)
          [] metric = "confusion" ->
                IF ~flag_1d THEN 1 - ((n_equal(a, b) + num_features - 1) \div num_features)
                ELSE 1 - (IF a[1] = b[1] THEN 1 ELSE 0)
          [] OTHER -> 0

\* lines 124-168: entry (i, j) of dsmatrix; a metric none of the four
\* branches names leaves the zero np.zeros put there (line 122).
ds_entry(metric, a, b) ==
    LET num_features == Len(a)
        flag_1d == (num_features = 1)
    IN  CASE metric = "euclidean" -> norm_diff(a, b)
          [] metric = "spearman"  -> 1 - corr2(a, b)
          [] metric = "pearson"   -> 1 - corr2(a, b)
          [] metric = "confusion" ->
                IF ~flag_1d THEN 1 - (n_equal(a, b) \div num_features)
                ELSE 1 - (IF a[1] = b[1] THEN 1 ELSE 0)
          [] OTHER -> 0

ds_matrix(data_vectors, metric) ==
    [i \in 1..Len(data_vectors) |->
        [j \in 1..Len(data_vectors) |-> ds_entry(metric, data_vectors[i], data_vectors[j])]]

\* The exemplar collections a metric is given (see the section's header).
DataFor(metric) ==
    LET all == UNION {[1..m -> [1..n -> FeatureValues]] :
                        m \in 1..MaxExemplars, n \in 1..MaxFeatures}
    IN  CASE metric = "euclidean" ->
               {d \in all : \A i, j \in 1..Len(d) : IsSquare(SumSq(d[i], d[j]))}
          [] metric \in {"spearman", "pearson"} ->
               {d \in all : \A i \in 1..Len(d) : Len(d[i]) = 2 /\ d[i][1] # d[i][2]}
          [] OTHER -> all

\* np.triu(M): the entries below the diagonal become 0.
triu(M) == [i \in 1..Len(M) |-> [j \in 1..Len(M) |-> IF j >= i THEN M[i][j] ELSE 0]]

\* M[M == a] = b on a copy of M.
replace(M, a, b) ==
    [i \in 1..Len(M) |-> [j \in 1..Len(M[i]) |-> IF M[i][j] = a THEN b ELSE M[i][j]]]

\* M[abs(M) > 0]: the entries of M that are not 0, row after row, from the
\* k-th entry on.
RECURSIVE select_nonzero(_, _)
select_nonzero(M, k) ==
    LET m == Len(M)
        i == ((k - 1) \div m) + 1
        j == ((k - 1) % m) + 1
    IN  IF k > m * m THEN <<>>
        ELSE (IF Abs(M[i][j]) > 0 THEN <<M[i][j]>> ELSE <<>>) \o select_nonzero(M, k + 1)

\* get_vector_form without the -1 stand-in for the zeros (lines 204 and 210).
vector_of_no_sentinel(full_matrix) ==
    LET orig_tri == triu(full_matrix)
    IN  select_nonzero(orig_tri, 1)

\* lines 202-213: the vector get_vector_form computes from a deep copy of the
\* full matrix.
vector_of(full_matrix) ==
    LET orig_dsmatrix == replace(full_matrix, 0, -1)
        orig_tri == triu(orig_dsmatrix)
        vector_form == select_nonzero(orig_tri, 1)
    IN  [k \in 1..Len(vector_form) |-> IF vector_form[k] = -1 THEN 0 ELSE vector_form[k]]

\* get_vector_form working on self.full_matrix itself, not on a copy.
vector_form_in_place(obj) ==
    IF obj.vector_form # None THEN obj
    ELSE [obj EXCEPT !.vector_form = Some(vector_of(obj.full_matrix)),
                     !.full_matrix = replace(obj.full_matrix, 0, -1)]

\* lines 198-215: the object after get_vector_form().
vector_form_of(obj) ==
    IF obj.vector_form # None THEN obj
    ELSE [obj EXCEPT !.vector_form = Some(vector_of(obj.full_matrix))]

\* lines 173-178: the object after get_triangle().
triangle_of(obj) ==
    IF obj.u_triangle = None THEN [obj EXCEPT !.u_triangle = Some(triu(obj.full_matrix))]
    ELSE obj

\* lines 102-170.
dsm_init ==
    /\ dsm.pc = "new"
    /\ dsm' = [dsm EXCEPT !.pc = "ready",
                          !.obj = [full_matrix |-> ds_matrix(dsm.data_vectors, dsm.metric),
                                   u_triangle |-> None, vector_form |-> None,
                                   metric |-> dsm.metric]]
    /\ UNCHANGED <<vt, sv, bp, m2s, bc, ev, lf, chi, v2i, rfe, mo, ord>>

\* lines 220-221.
dsm_get_full_matrix ==
    /\ dsm.pc = "ready"
    /\ dsm' = [dsm EXCEPT !.returned["get_full_matrix"] = Some(dsm.obj.full_matrix)]
    /\ UNCHANGED <<vt, sv, bp, m2s, bc, ev, lf, chi, v2i, rfe, mo, ord>>

dsm_get_triangle ==
    /\ dsm.pc = "ready"
    /\ LET obj == triangle_of(dsm.obj)
       IN  dsm' = [dsm EXCEPT !.obj = obj,
                              !.returned["get_triangle"] = obj.u_triangle]
    /\ UNCHANGED <<vt, sv, bp, m2s, bc, ev, lf, chi, v2i, rfe, mo, ord>>

dsm_get_vector_form ==
    /\ dsm.pc = "ready"
    /\ LET obj == vector_form_of(dsm.obj)
       IN  dsm' = [dsm EXCEPT !.obj = obj,
                              !.returned["get_vector_form"] = obj.vector_form]
    /\ UNCHANGED <<vt, sv, bp, m2s, bc, ev, lf, chi, v2i, rfe, mo, ord>>

Accessors == {"get_full_matrix", "get_triangle", "get_vector_form"}

InitDSMatrix ==
    /\ dsm \in UNION {{[pc |-> "new", data_vectors |-> d, metric |-> metric,
                        obj |-> [full_matrix |-> <<>>, u_triangle |-> None,
                                 vector_form |-> None, metric |-> metric],
                        returned |-> [a \in Accessors |-> None]] :
                         d \in DataFor(metric)} : metric \in Metrics}
    /\ vt = Idle /\ sv = Idle /\ bp = Idle /\ m2s = Idle
    /\ bc = Idle /\ ev = Idle /\ lf = Idle /\ chi = Idle
    /\ v2i = Idle /\ rfe = Idle /\ mo = Idle /\ ord = Idle

NextDSMatrix == dsm_init \/ dsm_get_full_matrix \/ dsm_get_triangle \/ dsm_get_vector_form

SpecDSMatrix == InitDSMatrix /\ [][NextDSMatrix]_vars

\* The entries of M at (i, j) with j >= i + k, row after row.
RECURSIVE UpperFrom(_, _, _)
UpperFrom(M, k, pos) ==
    LET m == Len(M)
        i == ((pos - 1) \div m) + 1
        j == ((pos - 1) % m) + 1
    IN  IF pos > m * m THEN <<>>
        ELSE (IF j >= i + k THEN <<M[i][j]>> ELSE <<>>) \o UpperFrom(M, k, pos + 1)

Zero2x2 == <<<<0, 0>>, <<0, 0>>>>

\* C6 as stated: get_vector_form returns only the off-diagonal entries of the
\* upper triangle; for the 2x2 all-zero matrix it returns an empty vector.
C6_VectorFormOffDiagonal ==
    (dsm.pc = "ready" /\ dsm.obj.vector_form # None) =>
        /\ dsm.obj.vector_form = Some(UpperFrom(dsm.obj.full_matrix, 1, 1))
        /\ dsm.obj.full_matrix = Zero2x2 => dsm.obj.vector_form = Some(<<>>)

\* C6 as amended: get_vector_form returns the entries of the upper triangle
\* with the diagonal, row after row, a zero entry as 0; for the 2x2 all-zero
\* matrix it returns three zeros.
C6_VectorFormWithDiagonal ==
    (dsm.pc = "ready" /\ dsm.obj.vector_form # None) =>
        /\ dsm.obj.vector_form = Some(UpperFrom(dsm.obj.full_matrix, 0, 1))
        /\ dsm.obj.full_matrix = Zero2x2 => dsm.obj.vector_form = Some(<<0, 0, 0>>)

\* C6's case: the DSMatrix of [[0],[0]] under 'euclidean' has the 2x2 zero
\* matrix and has computed its vector form.
C6_Witness ==
    /\ dsm.pc = "ready"
    /\ dsm.metric = "euclidean"
    /\ dsm.data_vectors = <<<<0>>, <<0>>>>
    /\ dsm.obj.full_matrix = Zero2x2
    /\ dsm.obj.vector_form = Some(<<0, 0, 0>>)

\* C7: after construction, whatever the order of the accessor calls, every
\* call of an accessor returns what its earlier calls returned, no accessor
\* changes full_matrix, and u_triangle and vector_form, once set, stay.
C7_AccessorsIdempotent ==
    [][dsm.pc = "ready" =>
          /\ dsm'.obj.full_matrix = dsm.obj.full_matrix
          /\ dsm.obj.u_triangle # None => dsm'.obj.u_triangle = dsm.obj.u_triangle
          /\ dsm.obj.vector_form # None => dsm'.obj.vector_form = dsm.obj.vector_form
          /\ \A a \in Accessors :
                dsm.returned[a] # None => dsm'.returned[a] = dsm.returned[a]]_vars

\* C7's case: all three accessors have been called on a matrix with a zero
\* off the diagonal, and the full matrix still has its zeros.
C7_Witness ==
    /\ dsm.pc = "ready"
    /\ \A a \in Accessors : dsm.returned[a] # None
    /\ Len(dsm.obj.full_matrix) = 3
    /\ dsm.obj.full_matrix[1][2] = 0 /\ dsm.obj.full_matrix[1][3] = 1
    /\ dsm.returned["get_full_matrix"] = Some(dsm.obj.full_matrix)
    /\ dsm.returned["get_triangle"] = Some(triu(dsm.obj.full_matrix))

\* The metric names DSMatrix.__init__ has a branch for (lines 124-155).
KnownMetrics == {"euclidean", "spearman", "pearson", "confusion"}

\* C11: constructing a DSMatrix with a metric name other than 'euclidean',
\* 'spearman', 'pearson' or 'confusion' fails; no DSMatrix object with a full
\* matrix comes out of the constructor for such a name.
C11_UnknownMetricFails ==
    dsm.pc = "ready" => dsm.metric \in KnownMetrics

\* C11, what the constructor does with such a name: it returns an object
\* whose full matrix is all zeros.
C11_UnknownMetricGivesZeros ==
    (dsm.pc = "ready" /\ dsm.metric \notin KnownMetrics) =>
        \A i, j \in 1..Len(dsm.data_vectors) : dsm.obj.full_matrix[i][j] = 0

\* C14 as stated: under 'confusion', with n >= 2 features, entry (i, j) is
\* 1 - (number of positions at which exemplars i and j are equal) / n; the
\* equation is multiplied by n to stay in integers.
C14_ConfusionFraction ==
    (dsm.pc = "ready" /\ dsm.metric = "confusion" /\ Len(dsm.data_vectors[1]) >= 2) =>
        \A i, j \in 1..Len(dsm.data_vectors) :
            LET n == Len(dsm.data_vectors[i])
            IN  n * dsm.obj.full_matrix[i][j]
                    = n - n_equal(dsm.data_vectors[i], dsm.data_vectors[j])

\* C14 as amended: under 'confusion', with n >= 2 features, entry (i, j) is
\* 1 - floor(equal positions / n): 0 when exemplars i and j are equal at
\* every position and 1 otherwise, for every ordered pair (i, j).
C14_ConfusionAllOrNothing ==
    (dsm.pc = "ready" /\ dsm.metric = "confusion" /\ Len(dsm.data_vectors[1]) >= 2) =>
        \A i, j \in 1..Len(dsm.data_vectors) :
            dsm.obj.full_matrix[i][j]
                = IF dsm.data_vectors[i] = dsm.data_vectors[j] THEN 0 ELSE 1

\* C14's case: two exemplars that agree at one of their two positions; their
\* entry is 1 and the diagonal is 0.
C14_Witness ==
    /\ dsm.pc = "ready"
    /\ dsm.metric = "confusion"
    /\ dsm.data_vectors = <<<<0, 1>>, <<0, 0>>>>
    /\ dsm.obj.full_matrix = <<<<0, 1>>, <<1, 0>>>>

----------------------------------------------------------------------------
(* get_limit_filter                                                        *)
(* A Python value is an int, a str or a list of ints and strs.  The        *)
(* collection has two attributes: 'targets' holds str labels and 'chunks'  *)
(* holds ints; collection[a].value is the sequence of its values.          *)

MaxAttrLen == 3

IntV(n) == [kind |-> "int", n |-> n, s |-> <<>>, items |-> <<>>]

StrV(s) == [kind |-> "str", n |-> 0, s |-> s, items |-> <<>>]

ListV(items) == [kind |-> "list", n |-> 0, s |-> <<>>, items |-> items]

\* operator.isSequenceType(x): true of a list or tuple, and of a str.
isSequenceType(x) == x.kind \in {"str", "list"}

\* The values `for v in x` yields: the items of a list, the one-character
\* strs of a str.
iter_values(x) ==
    IF x.kind = "str" THEN [i \in 1..Len(x.s) |-> StrV(<<x.s[i]>>)]
    ELSE x.items

\* x < y for two ints or two strs.
value_less(x, y) ==
    IF x.kind = "int" THEN x.n < y.n ELSE CmpStr(x.s, y.s) < 0

\* lines 615: np.ones(attr_length, dtype='bool').
filter_none(collection) == [k \in 1..collection.attr_length |-> TRUE]

\* lines 619-623: element k gets the position of its value among the sorted
\* unique values of the attribute.
filter_attr(limit, collection) ==
    LET lattr_data == collection.attr[limit]
        unique == Range(lattr_data)
    IN  [k \in 1..collection.attr_length |->
            Cardinality({uv \in unique : value_less(uv, lattr_data[k])})]

\* lines 625-633: element k is enabled when the value of some limit attribute
\* equals a v the limit gives for it.
filter_dict(limit, collection) ==
    LET vs(a) == IF isSequenceType(limit[a]) THEN Range(iter_values(limit[a]))
                 ELSE {limit[a]}
    IN  [k \in 1..collection.attr_length |->
            \E a \in DOMAIN limit : collection.attr[a][k] \in vs(a)]

LimitNone == [kind |-> "None", name |-> "", d |-> <<>>]

LimitAttr(name) == [kind |-> "str", name |-> name, d |-> <<>>]

LimitDict(d) == [kind |-> "dict", name |-> "", d |-> d]

LimitOther == [kind |-> "other", name |-> "", d |-> <<>>]

\* lines 611-637.
get_limit_filter(limit, collection) ==
    CASE limit.kind = "None" -> [kind |-> "bool", arr |-> filter_none(collection)]
      [] limit.kind = "str"  -> [kind |-> "int", arr |-> filter_attr(limit.name, collection)]
      [] limit.kind = "dict" -> [kind |-> "bool", arr |-> filter_dict(limit.d, collection)]
      [] OTHER -> [kind |-> "RuntimeError", arr |-> <<>>]

Labels == {StrV(<<"a">>), StrV(<<"a", "b">>)}

Chunks == {IntV(0), IntV(1)}

Collections ==
    UNION {{[attr_length |-> n, attr |-> [targets |-> t, chunks |-> c]] :
              t \in [1..n -> Labels], c \in [1..n -> Chunks]} : n \in 0..MaxAttrLen}

Limits ==
    LET ts == {("targets" :> v) : v \in Labels \cup {ListV(<<>>), ListV(<<StrV(<<"a">>)>>),
                                   ListV(<<StrV(<<"a">>), StrV(<<"a", "b">>)>>)}}
              \cup {<<>>}
        cs == {("chunks" :> v) : v \in Chunks \cup {ListV(<<IntV(1)>>),
                                   ListV(<<IntV(0), IntV(1)>>)}}
              \cup {<<>>}
    IN  {LimitNone, LimitAttr("targets"), LimitAttr("chunks"), LimitOther}
        \cup {LimitDict(t @@ c) : t \in ts, c \in cs}

lf_run ==
    /\ lf.pc = "call"
    /\ lf' = [lf EXCEPT !.pc = "done",
                        !.limit_filter = get_limit_filter(lf.limit, lf.collection)]
    /\ UNCHANGED <<vt, sv, bp, m2s, bc, ev, dsm, chi, v2i, rfe, mo, ord>>

InitLimitFilter ==
    /\ lf \in {[pc |-> "call", limit |-> l, collection |-> c,
                limit_filter |-> [kind |-> "none", arr |-> <<>>]] :
                 l \in Limits, c \in Collections}
    /\ vt = Idle /\ sv = Idle /\ bp = Idle /\ m2s = Idle
    /\ bc = Idle /\ ev = Idle /\ dsm = Idle /\ chi = Idle
    /\ v2i = Idle /\ rfe = Idle /\ mo = Idle /\ ord = Idle

NextLimitFilter == lf_run

SpecLimitFilter == InitLimitFilter /\ [][NextLimitFilter]_vars

\* What the claim says selects element k under the attribute a of the limit
\* d: the single value d[a] (an int or a str label), or a member of the
\* sequence d[a].
LimitSelects(d, a, value) ==
    IF d[a].kind = "list" THEN value \in Range(d[a].items) ELSE value = d[a]

\* C8: with a dictionary limit the filter is a boolean array of length
\* attr_length whose element k is true iff for some key a of the limit
\* collection[a].value[k] equals limit[a] (a single value, a single str label
\* included) or a member of limit[a] (a sequence); with limit None every
\* element is true.
C8_LimitFilter ==
    (lf.pc = "done") =>
        /\ lf.limit.kind = "None" =>
              /\ lf.limit_filter.kind = "bool"
              /\ lf.limit_filter.arr = [k \in 1..lf.collection.attr_length |-> TRUE]
        /\ lf.limit.kind = "dict" =>
              /\ lf.limit_filter.kind = "bool"
              /\ Len(lf.limit_filter.arr) = lf.collection.attr_length
              /\ \A k \in 1..lf.collection.attr_length :
                    lf.limit_filter.arr[k] <=>
                        \E a \in DOMAIN lf.limit.d :
                            LimitSelects(lf.limit.d, a, lf.collection.attr[a][k])

\* C8 where the code does what the claim says: no limit value is a str.
C8_LimitFilterNoStrValue ==
    (lf.pc = "done" /\ lf.limit.kind = "dict"
        /\ \A a \in DOMAIN lf.limit.d : lf.limit.d[a].kind # "str") =>
        \A k \in 1..lf.collection.attr_length :
            lf.limit_filter.arr[k] <=>
                \E a \in DOMAIN lf.limit.d :
                    LimitSelects(lf.limit.d, a, lf.collection.attr[a][k])

----------------------------------------------------------------------------
(* chisquare                                                               *)
(* Observations are counts.  An expected value and the statistic are exact *)
(* fractions [num, den] in lowest terms with den > 0.                      *)

MaxObs == 2

MaxExp == 2

Shapes == {<<1, 1>>, <<1, 2>>, <<2, 1>>, <<2, 2>>}

RECURSIVE GCD(_, _)
GCD(a, b) == IF b = 0 THEN a ELSE GCD(b, a % b)

Frac(num, den) ==
    LET g == GCD(Abs(num), den)
    IN  [num |-> num \div g, den |-> den \div g]

FracAdd(x, y) == Frac(x.num * y.den + y.num * x.den, x.den * y.den)

\* ((o - e) ** 2) / e for the count o and the non-zero fraction e > 0.
cell_term(o, e) == Frac((o * e.den - e.num) * (o * e.den - e.num), e.den * e.num)

Cells(obs) == {<<i, j>> : i \in 1..Len(obs), j \in 1..Len(obs[1])}

\* np.sum of a sequence of fractions.
RECURSIVE FracSum(_)
FracSum(terms) ==
    IF terms = <<>> THEN Frac(0, 1)
    ELSE FracAdd(Head(terms), FracSum(Tail(terms)))

\* a[mask] for a matrix a: the entries at the cells in mask, row after row.
RECURSIVE masked(_, _, _)
masked(a, mask, pos) ==
    LET ncols == Len(a[1])
        i == ((pos - 1) \div ncols) + 1
        j == ((pos - 1) % ncols) + 1
    IN  IF pos > Len(a) * ncols THEN <<>>
        ELSE (IF <<i, j>> \in mask THEN <<a[i][j]>> ELSE <<>>) \o masked(a, mask, pos + 1)

\* lines 50-68: the matrix of expected values, for the three rules and for a
\* matrix of obs's shape.
expected(obs, exp) ==
    LET nrows == Len(obs)
        ncols == Len(obs[1])
        nobs == Sum([i \in 1..nrows |-> Sum(obs[i])])
        colsum(j) == Sum([i \in 1..nrows |-> obs[i][j]])
        rowsum(i) == Sum(obs[i])
    IN  [i \in 1..nrows |-> [j \in 1..ncols |->
            CASE exp.kind = "indep_rows" -> Frac(colsum(j), nrows)
              [] exp.kind = "indep_cols" -> Frac(rowsum(i), ncols)
              [] exp.kind = "uniform"    -> Frac(nobs, nrows * ncols)
              [] OTHER                   -> Frac(exp.arr[i][j], 1)]]

\* line 73 testing only whether an expected value is 0.
undefined_cell_any_zero(obs, e) ==
    \E c \in Cells(obs) : e[c[1]][c[2]].num = 0

\* line 73: some expected value is 0 where something was observed.
undefined_cell(obs, e) ==
    \E c \in Cells(obs) : e[c[1]][c[2]].num = 0 /\ obs[c[1]][c[2]] # 0

\* line 77: the sum over the cells whose expected value is not 0.
chisq_of(obs, e) ==
    LET exp_nonzeros == {c \in Cells(obs) : e[c[1]][c[2]].num # 0}
        terms == [i \in 1..Len(obs) |-> [j \in 1..Len(obs[1]) |->
                    IF e[i][j].num # 0 THEN cell_term(obs[i][j], e[i][j])
                    ELSE Frac(0, 1)]]
    IN  FracSum(masked(terms, exp_nonzeros, 1))

\* line 81: the degrees of freedom chisqprob is given.
dof_of(obs, e) == Cardinality({c \in Cells(obs) : e[c[1]][c[2]].num # 0}) - 1

\* lines 50-68.  A str that names no rule raises ValueError (lines 62-63).
chi_expected ==
    /\ chi.pc = "call"
    /\ chi' = IF chi.exp.kind = "unknown"
                THEN [chi EXCEPT !.pc = "ValueError", !.error = "unknown exp"]
              ELSE [chi EXCEPT !.pc = "expected", !.e = expected(chi.obs, chi.exp)]
    /\ UNCHANGED <<vt, sv, bp, m2s, bc, ev, dsm, lf, v2i, rfe, mo, ord>>

\* lines 71-81.
chi_statistic ==
    /\ chi.pc = "expected"
    /\ chi' = IF undefined_cell(chi.obs, chi.e)
                THEN [chi EXCEPT !.pc = "ValueError", !.error = "undefined"]
              ELSE [chi EXCEPT !.pc = "returned",
                               !.chisq = chisq_of(chi.obs, chi.e),
                               !.dof = dof_of(chi.obs, chi.e)]
    /\ UNCHANGED <<vt, sv, bp, m2s, bc, ev, dsm, lf, v2i, rfe, mo, ord>>

ExpArgs(shape) ==
    {[kind |-> k, arr |-> <<>>] : k \in {"uniform", "indep_rows", "indep_cols", "unknown"}}
    \cup {[kind |-> "array", arr |-> a] :
            a \in [1..shape[1] -> [1..shape[2] -> 0..MaxExp]]}

InitChisquare ==
    /\ \E shape \in Shapes :
          \E obs \in [1..shape[1] -> [1..shape[2] -> 0..MaxObs]], exp \in ExpArgs(shape) :
             chi = [pc |-> "call", obs |-> obs, exp |-> exp, e |-> <<>>,
                    error |-> "", chisq |-> Frac(0, 1), dof |-> 0]
    /\ vt = Idle /\ sv = Idle /\ bp = Idle /\ m2s = Idle
    /\ bc = Idle /\ ev = Idle /\ dsm = Idle /\ lf = Idle
    /\ v2i = Idle /\ rfe = Idle /\ mo = Idle /\ ord = Idle

NextChisquare == chi_expected \/ chi_statistic

SpecChisquare == InitChisquare /\ [][NextChisquare]_vars

\* The cells of the table, row after row, as pairs <<observed, expected>>,
\* without the cells whose expected value is 0.
RECURSIVE KeptCells(_, _, _)
KeptCells(obs, e, pos) ==
    LET ncols == Len(obs[1])
        i == ((pos - 1) \div ncols) + 1
        j == ((pos - 1) % ncols) + 1
    IN  IF pos > Len(obs) * ncols THEN <<>>
        ELSE (IF e[i][j].num # 0 THEN <<<<obs[i][j], e[i][j]>>>> ELSE <<>>)
             \o KeptCells(obs, e, pos + 1)

\* Pearson's statistic of a list of <<observed, expected>> pairs, all of them
\* with a non-zero expected value.
RECURSIVE Pearson(_)
Pearson(cells) ==
    IF cells = <<>> THEN Frac(0, 1)
    ELSE LET o == Head(cells)[1]
             x == Head(cells)[2]
             d == Frac(o * x.den - x.num, x.den)
         IN  FracAdd(Frac(d.num * d.num * x.den, d.den * d.den * x.num),
                     Pearson(Tail(cells)))

\* C9: once the expected values are there, chisquare raises ValueError exactly
\* when some cell has expected value 0 and observed value different from 0;
\* otherwise it returns, the statistic is Pearson's sum over the table without
\* its zero-expected cells, and the degrees of freedom are the number of
\* cells with non-zero expected value, minus 1.
C9_Chisquare ==
    LET Undefined == \E c \in Cells(chi.obs) :
                        chi.e[c[1]][c[2]].num = 0 /\ chi.obs[c[1]][c[2]] # 0
        kept == KeptCells(chi.obs, chi.e, 1)
    IN  /\ (chi.pc = "ValueError" /\ chi.error = "undefined") => Undefined
        /\ chi.pc = "returned" =>
              /\ ~Undefined
              /\ chi.chisq = Pearson(kept)
              /\ chi.dof = Len(kept) - 1

\* C9's case: a 2x2 table with one cell where nothing is expected and nothing
\* was observed returned the statistic of the other three cells, 3 - 1 = 2
\* degrees of freedom.
C9_Witness ==
    /\ chi.pc = "returned"
    /\ chi.obs = <<<<0, 2>>, <<1, 1>>>>
    /\ chi.exp = [kind |-> "array", arr |-> <<<<0, 1>>, <<1, 2>>>>]
    /\ chi.dof = 2
    /\ chi.chisq = Frac(3, 2)

\* A cell with expected value 0 and an observation raised.
C9_WitnessRaise ==
    /\ chi.pc = "ValueError" /\ chi.error = "undefined"
    /\ chi.obs = <<<<1, 2>>, <<1, 1>>>>
    /\ chi.exp = [kind |-> "array", arr |-> <<<<0, 1>>, <<1, 2>>>>]

----------------------------------------------------------------------------
(* value2idx                                                               *)
(* x is an array of floats with whole values; an entry of the distance     *)
(* array is a record: inf says whether it was set to np.inf, v is its      *)
(* finite value.                                                           *)

MaxX == 3

XValues == 0..2

Solvs == {"round", "floor", "ceil", "nearest"}

Finite(n) == [inf |-> FALSE, v |-> n]

Inf == [inf |-> TRUE, v |-> 0]

\* a < b on floats, np.inf above every finite value.
float_less(a, b) == ~a.inf /\ (b.inf \/ a.v < b.v)

\* np.abs on one entry.
float_abs(a) == IF a.inf THEN a ELSE Finite(Abs(a.v))

\* line 532: np.asanyarray(x) - val.
distances(x, val) == [k \in 1..Len(x) |-> Finite(x[k] - val)]

\* lines 533-540: the distance array after the resolver branch; the else
\* branch builds a ValueError and drops it, leaving x as it is.
resolved(x, solv) ==
    CASE solv = "round" -> x
      [] solv = "ceil"  -> [k \in 1..Len(x) |-> IF float_less(x[k], Finite(0)) THEN Inf ELSE x[k]]
      [] solv = "floor" -> [k \in 1..Len(x) |-> IF float_less(Finite(0), x[k]) THEN Inf ELSE x[k]]
      [] OTHER -> x

\* np.argmin(x) of a non-empty array: the first index (from 0) of a smallest
\* entry.
argmin(x) ==
    (CHOOSE k \in 1..Len(x) :
        /\ \A m \in 1..Len(x) : ~float_less(x[m], x[k])
        /\ \A m \in 1..(k - 1) : float_less(x[k], x[m])) - 1

\* line 532.
v2i_enter ==
    /\ v2i.pc = "call"
    /\ v2i' = [v2i EXCEPT !.pc = "resolve", !.x = distances(v2i.x_arg, v2i.val)]
    /\ UNCHANGED <<vt, sv, bp, m2s, bc, ev, dsm, lf, chi, rfe, mo, ord>>

\* lines 533-540.
v2i_resolve ==
    /\ v2i.pc = "resolve"
    /\ v2i' = [v2i EXCEPT !.pc = "argmin", !.x = resolved(v2i.x, v2i.solv)]
    /\ UNCHANGED <<vt, sv, bp, m2s, bc, ev, dsm, lf, chi, rfe, mo, ord>>

\* lines 541-543: np.argmin raises ValueError on an empty array.
v2i_argmin ==
    /\ v2i.pc = "argmin"
    /\ LET x == [k \in 1..Len(v2i.x) |-> float_abs(v2i.x[k])]
       IN  IF x = <<>> THEN v2i' = [v2i EXCEPT !.pc = "ValueError", !.x = x]
           ELSE v2i' = [v2i EXCEPT !.pc = "done", !.x = x, !.idx = Some(argmin(x))]
    /\ UNCHANGED <<vt, sv, bp, m2s, bc, ev, dsm, lf, chi, rfe, mo, ord>>

InitValue2Idx ==
    /\ v2i \in {[pc |-> "call", val |-> val, x_arg |-> x, solv |-> solv,
                 x |-> <<>>, idx |-> None] :
                    val \in XValues, x \in SeqsUpTo(XValues, MaxX), solv \in Solvs}
    /\ vt = Idle /\ sv = Idle /\ bp = Idle /\ m2s = Idle /\ bc = Idle
    /\ ev = Idle /\ dsm = Idle /\ lf = Idle /\ chi = Idle
    /\ rfe = Idle /\ mo = Idle /\ ord = Idle

NextValue2Idx == v2i_enter \/ v2i_resolve \/ v2i_argmin

SpecValue2Idx == InitValue2Idx /\ [][NextValue2Idx]_vars

\* C12: value2idx called with a solv other than 'round', 'floor' or 'ceil'
\* fails with an error and returns no index.
C12_BadSolvFails ==
    v2i.solv \notin {"round", "floor", "ceil"} => (v2i.pc # "done" /\ v2i.idx = None)

\* C12, what such a call does on a non-empty x: it returns the index 'round'
\* returns, that of the first entry closest to val.
C12_BadSolvActsAsRound ==
    (v2i.pc = "done" /\ v2i.solv \notin {"round", "floor", "ceil"}) =>
        LET i == v2i.idx[1] + 1
        IN  /\ \A m \in 1..Len(v2i.x_arg) :
                  Abs(v2i.x_arg[i] - v2i.val) <= Abs(v2i.x_arg[m] - v2i.val)
            /\ \A m \in 1..(i - 1) :
                  Abs(v2i.x_arg[i] - v2i.val) < Abs(v2i.x_arg[m] - v2i.val)

\* The resolvers that are recognised do what their names say: 'ceil' picks
\* the closest entry not below val, 'floor' the closest entry not above it,
\* when there is one.
ResolversPickClosest ==
    (v2i.pc = "done" /\ v2i.solv \in {"ceil", "floor"}) =>
        LET i == v2i.idx[1] + 1
            ok(m) == IF v2i.solv = "ceil" THEN v2i.x_arg[m] >= v2i.val
                     ELSE v2i.x_arg[m] <= v2i.val
        IN  (\E m \in 1..Len(v2i.x_arg) : ok(m)) =>
                /\ ok(i)
                /\ \A m \in 1..Len(v2i.x_arg) :
                      ok(m) => Abs(v2i.x_arg[i] - v2i.val) <= Abs(v2i.x_arg[m] - v2i.val)

----------------------------------------------------------------------------
(* MapOverlap                                                              *)
(* maps is a sequence of binary maps of one length, each a sequence of 0   *)
(* and 1.  The threshold and the fractions of overlap are exact fractions. *)

MaxMaps == 2

MaxElems == 2

Thresholds == {Frac(0, 1), Frac(1, 2), Frac(2, 3), Frac(1, 1)}

BinaryMaps ==
    UNION {[1..m -> [1..n -> {0, 1}]] : m \in 1..MaxMaps, n \in 1..MaxElems}

\* x >= y, x > y and x < y on fractions (their denominators are positive).
frac_ge(x, y) == x.num * y.den >= y.num * x.den

frac_gt(x, y) == x.num * y.den > y.num * x.den

frac_lt(x, y) == x.num * y.den < y.num * x.den

\* np.mean(maps, axis=0): for every element its mean over the maps.
mean_axis0(maps) ==
    [k \in 1..Len(maps[1]) |-> Frac(Sum([m \in 1..Len(maps) |-> maps[m][k]]), Len(maps))]

\* np.mean(b) of a boolean array: the share of its true entries.
mean_bool(b) == Frac(Cardinality({k \in 1..Len(b) : b[k]}), Len(b))

\* __call__ keeping the elements that overlapped in the call before.
MapOverlap_call_keeps_overlap(self, maps) ==
    LET ovstats == mean_axis0(maps)
        fresh == [k \in 1..Len(ovstats) |-> frac_ge(ovstats[k], self.overlap_threshold)]
        kept(k) == self.overlap_map # None /\ k <= Len(self.overlap_map[1])
                      /\ self.overlap_map[1][k]
        overlap == [k \in 1..Len(ovstats) |-> fresh[k] \/ kept(k)]
    IN  [self |-> [self EXCEPT
                     !.overlap_map = Some(overlap),
                     !.spread_map = Some([k \in 1..Len(ovstats) |->
                                        /\ frac_gt(ovstats[k], Frac(0, 1))
                                        /\ frac_lt(ovstats[k], self.overlap_threshold)]),
                     !.ovstats_map = Some(ovstats)],
         ret |-> mean_bool(overlap)]

\* lines 411-421: the object after __call__(maps) and the value returned.
MapOverlap_call(self, maps) ==
    LET ovstats == mean_axis0(maps)
    IN  [self |-> [self EXCEPT
                     !.overlap_map = Some([k \in 1..Len(ovstats) |->
                                        frac_ge(ovstats[k], self.overlap_threshold)]),
                     !.spread_map = Some([k \in 1..Len(ovstats) |->
                                        /\ frac_gt(ovstats[k], Frac(0, 1))
                                        /\ frac_lt(ovstats[k], self.overlap_threshold)]),
                     !.ovstats_map = Some(ovstats)],
         ret |-> mean_bool([k \in 1..Len(ovstats) |->
                                frac_ge(ovstats[k], self.overlap_threshold)])]

\* lines 400-408.
mo_init ==
    /\ mo.pc = "new"
    /\ mo' = [mo EXCEPT !.pc = "ready",
                        !.self = [overlap_threshold |-> mo.overlap_threshold,
                                  overlap_map |-> None, spread_map |-> None,
                                  ovstats_map |-> None]]
    /\ UNCHANGED <<vt, sv, bp, m2s, bc, ev, dsm, lf, chi, v2i, rfe, ord>>

\* lines 411-421, for any maps, any number of times.
mo_call ==
    /\ mo.pc = "ready"
    /\ \E maps \in BinaryMaps :
          LET out == MapOverlap_call(mo.self, maps)
          IN  mo' = [mo EXCEPT !.self = out.self, !.maps = maps,
                               !.returned = Some(out.ret)]
    /\ UNCHANGED <<vt, sv, bp, m2s, bc, ev, dsm, lf, chi, v2i, rfe, ord>>

InitMapOverlap ==
    /\ mo \in {[pc |-> "new", overlap_threshold |-> t,
                self |-> [overlap_threshold |-> t, overlap_map |-> None,
                          spread_map |-> None, ovstats_map |-> None],
                maps |-> <<>>, returned |-> None] : t \in Thresholds}
    /\ vt = Idle /\ sv = Idle /\ bp = Idle /\ m2s = Idle /\ bc = Idle
    /\ ev = Idle /\ dsm = Idle /\ lf = Idle /\ chi = Idle
    /\ v2i = Idle /\ rfe = Idle /\ ord = Idle

NextMapOverlap == mo_init \/ mo_call

SpecMapOverlap == InitMapOverlap /\ [][NextMapOverlap]_vars

\* The number of the maps of the latest call in which element k is non-zero.
NonZeroIn(k) == Cardinality({m \in 1..Len(mo.maps) : mo.maps[m][k] # 0})

\* C13: after any sequence of calls the three maps are those of the latest
\* call's maps and the threshold alone: with f the fraction of the maps in
\* which an element is non-zero, ovstats_map is f, overlap_map is true iff
\* f >= threshold, spread_map is true iff 0 < f < threshold, the two are never
\* both true, and the value returned is the fraction of the elements whose
\* overlap_map is true.
C13_MapOverlap ==
    (mo.pc = "ready" /\ mo.returned # None) =>
        LET n == Len(mo.maps)
            elems == 1..Len(mo.maps[1])
            th == mo.self.overlap_threshold
            overlap == mo.self.overlap_map[1]
            spread == mo.self.spread_map[1]
            ovstats == mo.self.ovstats_map[1]
        IN  /\ Len(overlap) = Len(mo.maps[1])
            /\ Len(spread) = Len(mo.maps[1])
            /\ Len(ovstats) = Len(mo.maps[1])
            /\ \A k \in elems :
                  /\ ovstats[k] = Frac(NonZeroIn(k), n)
                  /\ overlap[k] <=> NonZeroIn(k) * th.den >= th.num * n
                  /\ spread[k] <=> (NonZeroIn(k) > 0 /\ NonZeroIn(k) * th.den < th.num * n)
                  /\ ~(overlap[k] /\ spread[k])
            /\ mo.returned = Some(Frac(Cardinality({k \in elems : overlap[k]}),
                                       Cardinality(elems)))
            /\ mo.self.overlap_threshold = mo.overlap_threshold

\* C13's case: a call on maps whose first element is in one map of two; with
\* the threshold 1/2 the element overlaps and is no spread, the second
\* element is neither.
C13_Witness ==
    /\ mo.pc = "ready"
    /\ mo.overlap_threshold = Frac(1, 2)
    /\ mo.maps = <<<<1, 0>>, <<0, 0>>>>
    /\ mo.self.overlap_map = Some(<<TRUE, FALSE>>)
    /\ mo.self.spread_map = Some(<<FALSE, FALSE>>)
    /\ mo.returned = Some(Frac(1, 2))

\* C13's spread case: under the threshold 1, an element that is in one map of
\* two is spread and does not overlap.
C13_WitnessSpread ==
    /\ mo.pc = "ready"
    /\ mo.overlap_threshold = Frac(1, 1)
    /\ mo.maps = <<<<1, 1>>, <<0, 1>>>>
    /\ mo.self.overlap_map = Some(<<FALSE, TRUE>>)
    /\ mo.self.spread_map = Some(<<TRUE, FALSE>>)

----------------------------------------------------------------------------
(* rfe_history_to_maps                                                     *)
(* history_maps is a sequence of rows, row step + 1 for the step `step`.   *)

MaxHistory == 4

HistoryValues == -1..3

\* max(history) and min(history) of a non-empty history.
max(history) == CHOOSE v \in Range(history) : \A w \in Range(history) : w <= v

min(history) == CHOOSE v \in Range(history) : \A w \in Range(history) : v <= w

\* np.zeros((steps, nfeatures)).
zeros(steps, nfeatures) == [r \in 1..steps |-> [k \in 1..nfeatures |-> 0]]

\* history_maps[step, history >= step] = 1 on row step (from 0).
mark_row(history_maps, history, step) ==
    [history_maps EXCEPT ![step + 1] =
        [k \in 1..Len(history) |-> IF history[k] >= step THEN 1 ELSE @[k]]]

\* The loop of lines 376-377 from step on.
RECURSIVE mark_from(_, _, _)
mark_from(history_maps, history, step) ==
    IF step >= Len(history_maps) THEN history_maps
    ELSE mark_from(mark_row(history_maps, history, step), history, step + 1)

\* lines 372-379.
rfe_history_to_maps(history) ==
    LET nfeatures == Len(history)
        steps == max(history) - min(history) + 1
    IN  mark_from(zeros(steps, nfeatures), history, 0)

\* lines 372-374: max() of an empty history raises ValueError.
rfe_enter ==
    /\ rfe.pc = "call"
    /\ IF rfe.history = <<>> THEN rfe' = [rfe EXCEPT !.pc = "ValueError"]
       ELSE LET nfeatures == Len(rfe.history)
                steps == max(rfe.history) - min(rfe.history) + 1
            IN  rfe' = [rfe EXCEPT !.pc = "loop", !.steps = steps, !.step = 0,
                                   !.history_maps = zeros(steps, nfeatures)]
    /\ UNCHANGED <<vt, sv, bp, m2s, bc, ev, dsm, lf, chi, v2i, mo, ord>>

\* lines 376-377: one pass of the loop.
rfe_step ==
    /\ rfe.pc = "loop"
    /\ rfe.step < rfe.steps
    /\ rfe' = [rfe EXCEPT !.history_maps = mark_row(rfe.history_maps, rfe.history, rfe.step),
                          !.step = rfe.step + 1]
    /\ UNCHANGED <<vt, sv, bp, m2s, bc, ev, dsm, lf, chi, v2i, mo, ord>>

\* line 379.
rfe_return ==
    /\ rfe.pc = "loop"
    /\ rfe.step >= rfe.steps
    /\ rfe' = [rfe EXCEPT !.pc = "done"]
    /\ UNCHANGED <<vt, sv, bp, m2s, bc, ev, dsm, lf, chi, v2i, mo, ord>>

InitRfe ==
    /\ rfe \in {[pc |-> "call", history |-> h, steps |-> 0, step |-> 0,
                 history_maps |-> <<>>] : h \in SeqsUpTo(HistoryValues, MaxHistory)}
    /\ vt = Idle /\ sv = Idle /\ bp = Idle /\ m2s = Idle /\ bc = Idle
    /\ ev = Idle /\ dsm = Idle /\ lf = Idle /\ chi = Idle
    /\ v2i = Idle /\ mo = Idle /\ ord = Idle

NextRfe == rfe_enter \/ rfe_step \/ rfe_return

SpecRfe == InitRfe /\ [][NextRfe]_vars

\* The call, step by step, returns what the operator computes.
RfeStepsAgreeWithOperator ==
    rfe.pc = "done" => rfe.history_maps = rfe_history_to_maps(rfe.history)

\* The features row r of the returned matrix marks.
Marked(r) == {k \in 1..Len(rfe.history) : rfe.history_maps[r][k] = 1}

\* The returned matrix is an inclusion staircase over the history.
Staircase ==
    LET rows == Len(rfe.history_maps)
        features == 1..Len(rfe.history)
    IN  /\ rows = max(rfe.history) - min(rfe.history) + 1
        /\ \A r \in 1..rows : Len(rfe.history_maps[r]) = Len(rfe.history)
        /\ \A r \in 1..rows : \A k \in features : rfe.history_maps[r][k] \in {0, 1}
        /\ Marked(1) = features
        /\ \A r \in 2..rows : Marked(r) \subseteq Marked(r - 1)
        /\ Marked(rows) = {k \in features : rfe.history[k] = max(rfe.history)}

\* C15: for every non-empty integer history the returned 0/1 matrix has
\* max - min + 1 rows and one column per feature, its first row marks every
\* feature, each later row marks a subset of the row before, and the last row
\* marks exactly the features whose history value is the maximum; [3,2,1,0]
\* gives the documented 4x4 staircase.
C15_Staircase ==
    (rfe.pc = "done" /\ rfe.history # <<>>) => Staircase

\* C15, the part that holds: the staircase comes out for the histories whose
\* smallest value is 0.
C15_StaircaseFromZero ==
    (rfe.pc = "done" /\ rfe.history # <<>> /\ min(rfe.history) = 0) => Staircase

\* The history [3,2,1,0] gives the documented 4x4 staircase.
C15_WitnessFromZero ==
    /\ rfe.pc = "done"
    /\ rfe.history = <<3, 2, 1, 0>>
    /\ rfe.history_maps = << <<1, 1, 1, 1>>, <<1, 1, 1, 0>>,
                              <<1, 1, 0, 0>>, <<1, 0, 0, 0>> >>

----------------------------------------------------------------------------
(* SmartVersion as an ordering                                             *)
(* Three SmartVersion objects a, b and c; a comparison x.__cmp__(y) is     *)
(* named by the two letters "xy".                                          *)

\* The segments the three versions are joined from.
OrderSegments ==
    { <<"1">>, <<"0">>, <<"0","d","e","v">>, <<"0","a">> }

OrderStrings == {join(segs) : segs \in SeqsUpTo(OrderSegments, MaxSegments)}

Comparisons == {"ab", "ba", "bc", "ac"}

\* The object on the left and on the right of a comparison.
left_of(p) == IF p \in {"ab", "ac"} THEN ord.a ELSE ord.b

right_of(p) == IF p = "ab" THEN ord.b ELSE IF p = "ba" THEN ord.a ELSE ord.c

\* lines 273-318: one comparison between two of the three objects.
ord_cmp ==
    /\ ord.pc = "ready"
    /\ \E p \in Comparisons :
          /\ ord.result[p] = None
          /\ ord' = [ord EXCEPT !.result[p] =
                        Some(SmartVersion_cmp(left_of(p),
                                 [kind |-> "SmartVersion", vstring |-> right_of(p).vstring]))]
    /\ UNCHANGED <<vt, sv, bp, m2s, bc, ev, dsm, lf, chi, v2i, rfe, mo>>

InitOrder ==
    /\ ord \in {[pc |-> "ready", a |-> SmartVersion(a), b |-> SmartVersion(b),
                 c |-> SmartVersion(c), result |-> [p \in Comparisons |-> None]] :
                    a \in OrderStrings, b \in OrderStrings, c \in OrderStrings}
    /\ vt = Idle /\ sv = Idle /\ bp = Idle /\ m2s = Idle /\ bc = Idle
    /\ ev = Idle /\ dsm = Idle /\ lf = Idle /\ chi = Idle
    /\ v2i = Idle /\ rfe = Idle /\ mo = Idle

NextOrder == ord_cmp

SpecOrder == InitOrder /\ [][NextOrder]_vars

\* The comparison p has been made and returned v.
Compared(p, v) == ord.result[p] = Some(Return(v))

\* cmp(a, b) = -cmp(b, a), once both comparisons are made.
Antisymmetric ==
    (ord.result["ab"] # None /\ ord.result["ba"] # None) =>
        /\ ord.result["ab"][1].kind = "return"
        /\ ord.result["ba"][1].kind = "return"
        /\ ord.result["ab"][1].val = -ord.result["ba"][1].val

\* a < b and b < c imply a < c, once the three comparisons are made.
Transitive ==
    (Compared("ab", -1) /\ Compared("bc", -1) /\ ord.result["ac"] # None)
        => Compared("ac", -1)

\* C16: SmartVersion comparison is a consistent ordering: antisymmetric and
\* transitive for all versions a, b, c, those that end in pre-release markers
\* or other alphabetic suffixes included.
C16_ConsistentOrdering == Antisymmetric /\ Transitive

\* C16, the part that holds: the comparison is antisymmetric.
C16_Antisymmetric == Antisymmetric

\* The cycle 1.0dev < 1.0 < 1.0a < 1.0dev: a pre-release suffix is below no
\* suffix, another alphabetic suffix above it, and the two suffixes compare
\* as strings, 'a' below 'dev'.
C16_WitnessCycle ==
    /\ ord.a.vstring = <<"1", ".", "0", "d", "e", "v">>
    /\ ord.b.vstring = <<"1", ".", "0">>
    /\ ord.c.vstring = <<"1", ".", "0", "a">>
    /\ Compared("ab", -1) /\ Compared("ba", 1)
    /\ Compared("bc", -1) /\ Compared("ac", 1)

====
